---- MODULE Spec2Model ----
(***************************************************************************)
(* Host-transfer backend of Aluminum, seen from one process (rank) of the  *)
(* communicator.  The device executes the streams' queues, the progress    *)
(* engine polls the in-flight states, the other ranks appear through the   *)
(* number of transport operations they have started on the communicator.   *)
(***************************************************************************)
EXTENDS Integers, Sequences, FiniteSets, TLC

VARIABLES
  rank,         \* comm.rank() of this process
  cur_stream,   \* cuda.cpp: static size_t cur_stream
  streams,      \* per device stream: queue of operations not yet executed
  evdone,       \* event recordings that have completed on the device
  states,       \* collective states created so far, in creation order
  pe_queue,     \* progress engine: enqueued, not yet in flight
  inflight,     \* progress engine: in-flight list
  mpi_order,    \* transport operations of this rank in the order they were started
  peerStarted,  \* per other rank: number of transport operations it has started
  req,          \* the caller's request handles (0 is null_req)
  last,         \* the host call made by the last step and what it returned
  internal_streams,        \* cuda.cpp: cudaStream_t internal_streams[5]
  using_external_streams,  \* cuda.cpp: bool using_external_streams
  destroyed,    \* per stream handle: number of cudaStreamDestroy calls on it
  sync_pool,    \* cuda.cpp: pool of sync-flag memory
  event_pool,   \* cuda.cpp: pool of device events
  progress_thread,  \* the progress engine's thread
  callers,      \* user threads inside get_internal_stream
  handed,       \* the counter values the calls of get_internal_stream observed
  submit,       \* per user thread: its position inside a call of gather
  sync_event,   \* HostTransferBackend::sync_event: its latest recording
  calls,        \* per state: the thread that issued it and its pre-sync
  requests,     \* per state: its request object, the references to it, its event
  mem           \* per gather state: the buffers' contents

cudaVars == <<internal_streams, using_external_streams, destroyed, sync_pool,
              event_pool, progress_thread>>
threadVars == <<callers, handed, submit, sync_event, calls, requests>>
vars == <<rank, cur_stream, streams, evdone, states, pe_queue, inflight,
          mpi_order, peerStarted, req, last, cudaVars, threadVars, mem>>

----------------------------------------------------------------------------
(* Bounds of the model *)
NRanks == 2
MaxOps == 2
NumHandles == 1
MaxPendingWaits == 1
MaxPendingKernels == 1
MaxCount == 1
NumGetters == 1
NThreads == 2
MaxCalls == 4
MaxCopies == 1

(* Program constants *)
num_internal_streams == 5
null_req == 0

Ranks == 0 .. (NRanks - 1)
Peers == Ranks \ {rank}
Handles == 1 .. NumHandles
(* every rank passes the same root to the calls of one run *)
Roots == {NRanks - 1}
InternalStreams == 0 .. (num_internal_streams - 1)
UserStream == num_internal_streams
StreamIds == InternalStreams \cup {UserStream}
Threads == 1 .. NThreads

(* Stream handles: the ones cudaStreamCreate gave to init, the ones a     *)
(* stream getter supplies.  Getter 0 returns the same stream at each call, *)
(* getter g > 0 a different stream at each call.                           *)
InitStreams == {<<"al_internal", i>> : i \in InternalStreams}
stream_getter(g, i) == IF g = 0 THEN <<"external", 0, 0>> ELSE <<"external", g, i>>
Getters == 0 .. NumGetters
GetterStreams == {stream_getter(g, i) : g \in Getters, i \in InternalStreams}
StreamHandles == InitStreams \cup GetterStreams

----------------------------------------------------------------------------
(* Device-stream operations *)
Item(t, e, c) == [t |-> t, e |-> e, c |-> c, a |-> {}, w |-> {}]
Record(e, c) == Item("record", e, c)
StreamWaitEvent(e, c) == Item("wait_event", e, c)
MemcpyD2H(c) == Item("d2h", "", c)
MemcpyH2D(c) == Item("h2d", "", c)
GpuWait(c) == Item("gpu_wait", "", c)
Kernel(a, w) == [t |-> "kernel", e |-> "", c |-> 0, a |-> a, w |-> w]

Enqueue(S, sid, items) == [S EXCEPT ![sid] = @ \o items]

----------------------------------------------------------------------------
(* The surface of the backend *)
Collectives == {"Allreduce", "Allgather", "Alltoall", "Bcast", "Gather",
                "Reduce", "Reduce_scatter", "Scatter"}
Pt2pt == {"Send", "Recv", "SendRecv"}
Surface == Collectives \cup Pt2pt
Algorithms == {"automatic", "host_transfer", "invalid"}

(* Mutation: the case label host_transfer is missing. *)
Recognized_AutomaticOnly(op, algo) == algo = "automatic"

(* the case labels of the switch over algo *)
Recognized(op, algo) ==
  \/ algo = "automatic"
  \/ op = "Allreduce" /\ algo = "host_transfer"

(* Mutation: the barrier state waits for an end event like the states that *)
(* copy a result back.                                                     *)
HasResult_BarrierAtEnd(op, is_root) ==
  IF op \in {"Gather", "Reduce"} THEN is_root
  ELSE IF op = "Send" THEN FALSE
  ELSE TRUE

(* Whether this rank copies a result back to the device. *)
HasResult(op, is_root) ==
  IF op \in {"Gather", "Reduce"} THEN is_root
  ELSE IF op \in {"Send", "Barrier"} THEN FALSE
  ELSE TRUE

(* Mutation: start_event is recorded ahead of the staging copy. *)
GatherAlState_StartBeforeCopy(c, is_root) ==
  <<Record("start", c), MemcpyD2H(c), GpuWait(c)>>
  \o (IF is_root THEN <<MemcpyH2D(c), Record("end", c)>> ELSE <<>>)

(* Mutation: the copy back is enqueued ahead of the wait for the host. *)
GatherAlState_CopyBackBeforeWait(c, is_root) ==
  <<MemcpyD2H(c), Record("start", c)>>
  \o (IF is_root THEN <<MemcpyH2D(c), GpuWait(c), Record("end", c)>>
      ELSE <<GpuWait(c)>>)

(* Mutation: end_event is recorded ahead of the copy back. *)
GatherAlState_EndBeforeCopyBack(c, is_root) ==
  <<MemcpyD2H(c), Record("start", c), GpuWait(c)>>
  \o (IF is_root THEN <<Record("end", c), MemcpyH2D(c)>> ELSE <<>>)

(* Mutation: every rank copies back and records end_event. *)
GatherAlState_CopyBackEverywhere(c, is_root) ==
  <<MemcpyD2H(c), Record("start", c), GpuWait(c), MemcpyH2D(c), Record("end", c)>>

(* Mutation: the stream is made to wait for the host's signal twice. *)
GatherAlState_TwoWaits(c, is_root) ==
  <<MemcpyD2H(c), Record("start", c), GpuWait(c), GpuWait(c)>>
  \o (IF is_root THEN <<MemcpyH2D(c), Record("end", c)>> ELSE <<>>)

(* Mutation: the stream is not made to wait for the host's signal. *)
GatherAlState_NoGpuWait(c, is_root) ==
  <<MemcpyD2H(c), Record("start", c)>>
  \o (IF is_root THEN <<MemcpyH2D(c), Record("end", c)>> ELSE <<>>)

(* GatherAlState constructor: the operations it puts on its stream. *)
GatherAlState(c, is_root) ==
  <<MemcpyD2H(c), Record("start", c), GpuWait(c)>>
  \o (IF is_root THEN <<MemcpyH2D(c), Record("end", c)>> ELSE <<>>)

(* Constructors of the states whose classes are described by the design only. *)
OtherAlState(op, c, is_root) ==
  <<MemcpyD2H(c), Record("start", c), GpuWait(c)>>
  \o (IF HasResult(op, is_root) THEN <<MemcpyH2D(c), Record("end", c)>> ELSE <<>>)

(* Mutation: the stream is not made to wait for the host. *)
BarrierAlState_NoGpuWait(c) == <<Record("start", c)>>

(* Mutation: the stream waits for the host before it records start_event. *)
BarrierAlState_WaitFirst(c) == <<GpuWait(c), Record("start", c)>>

(* ht::BarrierAlState constructor: nothing to stage. *)
BarrierAlState(c) == <<Record("start", c), GpuWait(c)>>

StateProgram(op, c, is_root) ==
  IF op = "Gather" THEN GatherAlState(c, is_root)
  ELSE IF op = "Barrier" THEN BarrierAlState(c)
  ELSE OtherAlState(op, c, is_root)

(* The requests for which a wait is queued on the communicator's stream. *)
PendingWaits ==
  LET q == streams[UserStream] IN
  {q[i].c : i \in {j \in 1 .. Len(q) : q[j].t = "wait_event" /\ q[j].e = "req"}}

(* A new state.  d2h and h2d tell what the two copies found when they ran; *)
(* waited_before remembers the waits queued on the user's stream at the    *)
(* moment of the call.                                                     *)
NewState(op, nb, is_root, sid) ==
  [op |-> op, nb |-> nb, is_root |-> is_root, stream |-> sid,
   phase |-> "waiting_for_device_copy", mpi |-> "none", gpu_wait |-> FALSE,
   host_mem |-> "allocated", d2h |-> "none", h2d |-> "none",
   waited_before |-> PendingWaits]

NoCall == [call |-> "none", nb |-> FALSE, count |-> 0, algo |-> "", h |-> 0,
           old |-> 0, ret |-> ""]
CallRec(op, nb, count, algo, h, ret) ==
  [call |-> op, nb |-> nb, count |-> count, algo |-> algo, h |-> h,
   old |-> IF h = 0 THEN 0 ELSE req[h], ret |-> ret]

get_internal_stream == cur_stream % num_internal_streams

(* Mutation: sync_event is recorded on the internal stream itself. *)
sync_internal_stream_with_comm_OwnStream(S, internal_stream) ==
  Enqueue(S, internal_stream,
          <<Record("sync", cur_stream), StreamWaitEvent("sync", cur_stream)>>)

(* Mutation: the two calls are exchanged, the internal stream waits for *)
(* the recording sync_event held before this call.                      *)
sync_internal_stream_with_comm_WaitFirst(S, internal_stream) ==
  Enqueue(Enqueue(S, internal_stream,
                  IF cur_stream = 0 THEN <<>>
                  ELSE <<StreamWaitEvent("sync", cur_stream - 1)>>),
          UserStream, <<Record("sync", cur_stream)>>)

(* Mutation: the internal stream is not made to wait for the recording. *)
sync_internal_stream_with_comm_NoWait(S, internal_stream) ==
  Enqueue(S, UserStream, <<Record("sync", cur_stream)>>)

(* sync_internal_stream_with_comm: record sync_event on the communicator's *)
(* stream, make the internal stream wait for that recording.               *)
sync_internal_stream_with_comm(S, internal_stream) ==
  Enqueue(Enqueue(S, UserStream, <<Record("sync", cur_stream)>>),
          internal_stream, <<StreamWaitEvent("sync", cur_stream)>>)

(* Mutation: the request's event is recorded on the communicator's stream. *)
setup_completion_event_OnUserStream(S, internal_stream, c) ==
  Enqueue(S, UserStream, <<Record("req", c)>>)

(* setup_completion_event: record a pooled event on the internal stream. *)
setup_completion_event(S, internal_stream, c) ==
  Enqueue(S, internal_stream, <<Record("req", c)>>)

(* do_gather, do_send, ...: construct the state on `sid`, enqueue it. *)
do_op(S, op, is_root, nb, sid) ==
  LET c == Len(states) + 1 IN
  [streams |-> Enqueue(S, sid, StateProgram(op, c, is_root)),
   states |-> Append(states, NewState(op, nb, is_root, sid)),
   pe_queue |-> Append(pe_queue, c)]

CanGrow == Len(states) < MaxOps /\ cur_stream < MaxOps

(* Mutation: the blocking form constructs its state on an internal stream. *)
Blocking_OnInternalStream(op, count, root, algo) ==
  /\ op \in Collectives
  /\ UNCHANGED <<rank, cur_stream, evdone, inflight, mpi_order, peerStarted, req>>
  /\ IF count = 0
     THEN /\ UNCHANGED <<streams, states, pe_queue>>
          /\ last' = CallRec(op, FALSE, count, algo, 0, "return")
     ELSE IF Recognized(op, algo)
     THEN /\ CanGrow
          /\ LET d == do_op(streams, op, rank = root, FALSE, get_internal_stream) IN
               /\ streams' = d.streams
               /\ states' = d.states
               /\ pe_queue' = d.pe_queue
          /\ last' = CallRec(op, FALSE, count, algo, 0, "return")
     ELSE /\ UNCHANGED <<streams, states, pe_queue>>
          /\ last' = CallRec(op, FALSE, count, algo, 0, "throw")

(* Blocking form of a collective: Gather, Allreduce, ... *)
Blocking(op, count, root, algo) ==
  /\ op \in Collectives
  /\ UNCHANGED <<rank, cur_stream, evdone, inflight, mpi_order, peerStarted, req>>
  /\ IF count = 0
     THEN /\ UNCHANGED <<streams, states, pe_queue>>
          /\ last' = CallRec(op, FALSE, count, algo, 0, "return")
     ELSE IF Recognized(op, algo)
     THEN /\ CanGrow
          /\ LET d == do_op(streams, op, rank = root, FALSE, UserStream) IN
               /\ streams' = d.streams
               /\ states' = d.states
               /\ pe_queue' = d.pe_queue
          /\ last' = CallRec(op, FALSE, count, algo, 0, "return")
     ELSE /\ UNCHANGED <<streams, states, pe_queue>>
          /\ last' = CallRec(op, FALSE, count, algo, 0, "throw")

(* Mutation: count is tested after the internal stream has been set up. *)
Nonblocking_LateCountTest(op, count, root, algo, h) ==
  /\ op \in Collectives
  /\ UNCHANGED <<rank, evdone, inflight, mpi_order, peerStarted>>
  /\ CanGrow
  /\ cur_stream' = cur_stream + 1
  /\ LET internal_stream == get_internal_stream
         synced == sync_internal_stream_with_comm(streams, internal_stream)
     IN IF count # 0 /\ Recognized(op, algo)
        THEN LET d == do_op(synced, op, rank = root, TRUE, internal_stream) IN
               /\ streams' = setup_completion_event(d.streams, internal_stream,
                                                    Len(states) + 1)
               /\ states' = d.states
               /\ pe_queue' = d.pe_queue
               /\ req' = [req EXCEPT ![h] = Len(states) + 1]
               /\ last' = CallRec(op, TRUE, count, algo, h, "return")
        ELSE /\ streams' = synced
             /\ UNCHANGED <<states, pe_queue, req>>
             /\ last' = CallRec(op, TRUE, count, algo, h,
                                IF count = 0 THEN "return" ELSE "throw")

(* Non-blocking form of a collective: NonblockingGather, ... *)
Nonblocking(op, count, root, algo, h) ==
  /\ op \in Collectives
  /\ UNCHANGED <<rank, evdone, inflight, mpi_order, peerStarted>>
  /\ IF count = 0
     THEN /\ UNCHANGED <<cur_stream, streams, states, pe_queue, req>>
          /\ last' = CallRec(op, TRUE, count, algo, h, "return")
     ELSE /\ CanGrow
          /\ cur_stream' = cur_stream + 1
          /\ LET internal_stream == get_internal_stream
                 synced == sync_internal_stream_with_comm(streams, internal_stream)
             IN IF Recognized(op, algo)
                THEN LET d == do_op(synced, op, rank = root, TRUE, internal_stream) IN
                       /\ streams' = setup_completion_event(d.streams, internal_stream,
                                                            Len(states) + 1)
                       /\ states' = d.states
                       /\ pe_queue' = d.pe_queue
                       /\ req' = [req EXCEPT ![h] = Len(states) + 1]
                       /\ last' = CallRec(op, TRUE, count, algo, h, "return")
                ELSE /\ streams' = synced
                     /\ UNCHANGED <<states, pe_queue, req>>
                     /\ last' = CallRec(op, TRUE, count, algo, h, "throw")

(* Barrier and NonblockingBarrier: no buffer, no count, no root. *)
Barrier ==
  /\ CanGrow
  /\ UNCHANGED <<rank, cur_stream, evdone, inflight, mpi_order, peerStarted, req>>
  /\ LET d == do_op(streams, "Barrier", FALSE, FALSE, UserStream) IN
       /\ streams' = d.streams
       /\ states' = d.states
       /\ pe_queue' = d.pe_queue
  /\ last' = CallRec("Barrier", FALSE, 0, "automatic", 0, "return")

NonblockingBarrier(h) ==
  /\ CanGrow
  /\ UNCHANGED <<rank, evdone, inflight, mpi_order, peerStarted>>
  /\ cur_stream' = cur_stream + 1
  /\ LET internal_stream == get_internal_stream
         synced == sync_internal_stream_with_comm(streams, internal_stream)
         d == do_op(synced, "Barrier", FALSE, TRUE, internal_stream)
     IN /\ streams' = setup_completion_event(d.streams, internal_stream,
                                             Len(states) + 1)
        /\ states' = d.states
        /\ pe_queue' = d.pe_queue
        /\ req' = [req EXCEPT ![h] = Len(states) + 1]
        /\ last' = CallRec("Barrier", TRUE, 0, "automatic", h, "return")

(* passthrough_nb_barrier of the MPI backend: a state with no stream, *)
(* handed to the same progress engine.                                *)
NoStream == 0 - 1

passthrough_nb_barrier ==
  /\ Len(states) < MaxOps
  /\ states' = Append(states, NewState("MPIBarrier", TRUE, FALSE, NoStream))
  /\ pe_queue' = Append(pe_queue, Len(states) + 1)
  /\ last' = CallRec("MPIBarrier", TRUE, 0, "", 0, "return")
  /\ UNCHANGED <<rank, cur_stream, streams, evdone, inflight, mpi_order,
                 peerStarted, req>>

(* Send, Recv, SendRecv: no test of count, no algorithm. *)
BlockingPt2pt(op, count) ==
  /\ op \in Pt2pt
  /\ CanGrow
  /\ UNCHANGED <<rank, cur_stream, evdone, inflight, mpi_order, peerStarted, req>>
  /\ LET d == do_op(streams, op, FALSE, FALSE, UserStream) IN
       /\ streams' = d.streams
       /\ states' = d.states
       /\ pe_queue' = d.pe_queue
  /\ last' = CallRec(op, FALSE, count, "", 0, "return")

NonblockingPt2pt(op, count, h) ==
  /\ op \in Pt2pt
  /\ CanGrow
  /\ UNCHANGED <<rank, evdone, inflight, mpi_order, peerStarted>>
  /\ cur_stream' = cur_stream + 1
  /\ LET internal_stream == get_internal_stream
         synced == sync_internal_stream_with_comm(streams, internal_stream)
         d == do_op(synced, op, FALSE, TRUE, internal_stream)
     IN /\ streams' = setup_completion_event(d.streams, internal_stream,
                                             Len(states) + 1)
        /\ states' = d.states
        /\ pe_queue' = d.pe_queue
        /\ req' = [req EXCEPT ![h] = Len(states) + 1]
  /\ last' = CallRec(op, TRUE, count, "", h, "return")

----------------------------------------------------------------------------
(* Test and Wait on a request handle *)
ReqEvent(c) == <<"req", c>>

(* Mutation: the handle is not reset when the event has completed. *)
Test_NoReset(h) ==
  /\ UNCHANGED <<rank, cur_stream, streams, evdone, states, pe_queue, inflight,
                 mpi_order, peerStarted, req>>
  /\ last' = CallRec("Test", FALSE, 0, "", h,
                     IF req[h] = null_req \/ ReqEvent(req[h]) \in evdone
                     THEN "true" ELSE "false")

Test(h) ==
  /\ UNCHANGED <<rank, cur_stream, streams, evdone, states, pe_queue, inflight,
                 mpi_order, peerStarted>>
  /\ IF req[h] = null_req
     THEN /\ UNCHANGED req
          /\ last' = CallRec("Test", FALSE, 0, "", h, "true")
     ELSE LET r == ReqEvent(req[h]) \in evdone IN
          /\ req' = IF r THEN [req EXCEPT ![h] = null_req] ELSE req
          /\ last' = CallRec("Test", FALSE, 0, "", h, IF r THEN "true" ELSE "false")

NumItems(q, t) == Cardinality({i \in 1 .. Len(q) : q[i].t = t /\ q[i].e \in {"", "req"}})

(* Mutation: the host waits for the event (cudaEventSynchronize). *)
Wait_Blocking(h) ==
  /\ UNCHANGED <<rank, cur_stream, streams, evdone, states, pe_queue, inflight,
                 mpi_order, peerStarted, req>>
  /\ last' = CallRec("Wait", FALSE, 0, "", h, "return")
  /\ req[h] # null_req => ReqEvent(req[h]) \in evdone

(* Mutation: the null request is not tested for. *)
Wait_NoNullCheck(h) ==
  /\ UNCHANGED <<rank, cur_stream, evdone, states, pe_queue, inflight,
                 mpi_order, peerStarted, req>>
  /\ last' = CallRec("Wait", FALSE, 0, "", h, "return")
  /\ NumItems(streams[UserStream], "wait_event") < MaxPendingWaits
  /\ streams' = Enqueue(streams, UserStream, <<StreamWaitEvent("req", req[h])>>)

Wait(h) ==
  /\ UNCHANGED <<rank, cur_stream, evdone, states, pe_queue, inflight,
                 mpi_order, peerStarted, req>>
  /\ last' = CallRec("Wait", FALSE, 0, "", h, "return")
  /\ IF req[h] = null_req
     THEN UNCHANGED streams
     ELSE /\ NumItems(streams[UserStream], "wait_event") < MaxPendingWaits
          /\ streams' = Enqueue(streams, UserStream,
                                <<StreamWaitEvent("req", req[h])>>)

(* Device work the user submits to the communicator's stream.  It remembers *)
(* the non-blocking operations issued before it and the requests whose wait *)
(* is queued ahead of it.                                                   *)
UserKernel ==
  /\ NumItems(streams[UserStream], "kernel") < MaxPendingKernels
  /\ streams' = Enqueue(streams, UserStream,
                 <<Kernel({c \in 1 .. Len(states) : states[c].nb}, PendingWaits)>>)
  /\ last' = CallRec("Kernel", FALSE, 0, "", 0, "return")
  /\ UNCHANGED <<rank, cur_stream, evdone, states, pe_queue, inflight,
                 mpi_order, peerStarted, req>>

----------------------------------------------------------------------------
(* The device: executes the head of a stream *)
Runnable(it) ==
  CASE it.t = "wait_event" -> <<it.e, it.c>> \in evdone
    [] it.t = "gpu_wait" -> states[it.c].gpu_wait
    [] OTHER -> TRUE

(* What a copy moves: the staging copy is in time when the transport has  *)
(* not read the buffer yet, the copy back carries the result when the     *)
(* transport has written it; a copy naming a released buffer is invalid.  *)
CopyIn(c) ==
  IF states[c].host_mem = "released" THEN "freed"
  ELSE IF states[c].mpi = "none" THEN "staged" ELSE "late"
CopyOut(c) ==
  IF states[c].host_mem = "released" THEN "freed"
  ELSE IF states[c].mpi = "done" THEN "result" ELSE "stale"

RECURSIVE LeadingRecords(_)
LeadingRecords(q) ==
  IF q # <<>> /\ Head(q).t = "record" THEN 1 + LeadingRecords(Tail(q)) ELSE 0

DeviceExec(sid) ==
  /\ streams[sid] # <<>>
  /\ LET it == Head(streams[sid])
         rest == Tail(streams[sid])
         n == LeadingRecords(rest)
     IN /\ Runnable(it)
        /\ streams' = [streams EXCEPT ![sid] = SubSeq(rest, n + 1, Len(rest))]
        /\ evdone' = evdone
                     \cup (IF it.t = "record" THEN {<<it.e, it.c>>} ELSE {})
                     \cup {<<rest[i].e, rest[i].c>> : i \in 1 .. n}
        /\ states' = CASE it.t = "d2h" -> [states EXCEPT ![it.c].d2h = CopyIn(it.c)]
                       [] it.t = "h2d" -> [states EXCEPT ![it.c].h2d = CopyOut(it.c)]
                       [] OTHER -> states
  /\ last' = NoCall
  /\ UNCHANGED <<rank, cur_stream, pe_queue, inflight, mpi_order, peerStarted, req>>

----------------------------------------------------------------------------
(* The progress engine *)
(* One visit of the engine's loop to state c: the loop first moves the *)
(* enqueued states to the in-flight list, then polls c.                *)
Position(c) == CHOOSE i \in 1 .. Len(mpi_order) : mpi_order[i] = c

(* The transport's completion query: a rank that only sends may complete   *)
(* at once, a rank that receives completes when all ranks have started it. *)
TransportComplete(c) ==
  \/ states[c].op \in {"Gather", "Reduce", "Send"} /\ ~states[c].is_root
  \/ \A p \in Peers : peerStarted[p] >= Position(c)
  \/ states[c].mpi = "failed"

(* start_mpi_op: the return code rc of MPI_Igather is not looked at. *)
start_mpi_op(c, rc) == IF rc = "MPI_SUCCESS" THEN "started" ELSE "failed"

SignalsEarly(c) ==
  states[c].op \in {"Gather", "Reduce", "Send"} /\ ~states[c].is_root

Remove(q, c) == SelectSeq(q, LAMBDA x : x # c)

(* Mutation: the engine signals the flag as soon as the start event has *)
(* completed, without a transport phase.                               *)
PE_Step_SkipTransport(c, rc) ==
  /\ \E i \in 1 .. Len(inflight \o pe_queue) : (inflight \o pe_queue)[i] = c
  /\ pe_queue' = <<>>
  /\ last' = NoCall
  /\ UNCHANGED <<rank, cur_stream, streams, evdone, peerStarted, req>>
  /\ CASE states[c].phase = "waiting_for_device_copy" ->
            /\ <<"start", c>> \in evdone
            /\ states' = [states EXCEPT ![c].phase = "signaled",
                                        ![c].mpi = "done",
                                        ![c].gpu_wait = TRUE]
            /\ mpi_order' = Append(mpi_order, c)
            /\ inflight' = inflight \o pe_queue
       [] states[c].phase = "signaled" ->
            /\ HasResult(states[c].op, states[c].is_root) => <<"end", c>> \in evdone
            /\ states' = [states EXCEPT ![c].phase = "complete",
                                        ![c].host_mem = "released"]
            /\ inflight' = Remove(inflight \o pe_queue, c)
            /\ UNCHANGED mpi_order
       [] OTHER -> FALSE

PE_Step(c, rc) ==
  /\ \E i \in 1 .. Len(inflight \o pe_queue) : (inflight \o pe_queue)[i] = c
  /\ pe_queue' = <<>>
  /\ last' = NoCall
  /\ UNCHANGED <<rank, cur_stream, streams, evdone, peerStarted, req>>
  /\ CASE states[c].phase = "waiting_for_device_copy" ->
            /\ <<"start", c>> \in evdone
            /\ states' = [states EXCEPT ![c].phase = "transport_started",
                                        ![c].mpi = start_mpi_op(c, rc),
                                        ![c].gpu_wait = SignalsEarly(c)]
            /\ mpi_order' = Append(mpi_order, c)
            /\ inflight' = inflight \o pe_queue
       [] states[c].phase = "transport_started" ->
            /\ rc = "MPI_SUCCESS"
            /\ TransportComplete(c)
            /\ states' = [states EXCEPT ![c].phase = "signaled",
                                        ![c].mpi = IF @ = "failed" THEN @ ELSE "done",
                                        ![c].gpu_wait = TRUE]
            /\ inflight' = inflight \o pe_queue
            /\ UNCHANGED mpi_order
       [] states[c].phase = "signaled" ->
            /\ rc = "MPI_SUCCESS"
            /\ HasResult(states[c].op, states[c].is_root) => <<"end", c>> \in evdone
            /\ states' = [states EXCEPT ![c].phase = "complete",
                                        ![c].host_mem = "released"]
            /\ inflight' = Remove(inflight \o pe_queue, c)
            /\ UNCHANGED mpi_order
       [] OTHER -> FALSE

(* The engine's step on a state of the MPI backend: start the transport *)
(* operation at the first visit, mark the request complete when the      *)
(* transport's completion query succeeds.                                *)
MPIState_step(c) ==
  /\ \E i \in 1 .. Len(inflight \o pe_queue) : (inflight \o pe_queue)[i] = c
  /\ states[c].op = "MPIBarrier"
  /\ pe_queue' = <<>>
  /\ last' = NoCall
  /\ UNCHANGED <<rank, cur_stream, streams, evdone, peerStarted, req>>
  /\ CASE states[c].phase = "waiting_for_device_copy" ->
            /\ states' = [states EXCEPT ![c].phase = "transport_started",
                                        ![c].mpi = "started"]
            /\ mpi_order' = Append(mpi_order, c)
            /\ inflight' = inflight \o pe_queue
       [] states[c].phase = "transport_started" ->
            /\ TransportComplete(c)
            /\ states' = [states EXCEPT ![c].phase = "complete",
                                        ![c].mpi = "done"]
            /\ inflight' = Remove(inflight \o pe_queue, c)
            /\ UNCHANGED mpi_order
       [] OTHER -> FALSE

(* Another rank starts its next transport operation on the communicator. *)
PeerStart(p) ==
  /\ p \in Peers
  /\ peerStarted[p] < MaxOps
  /\ peerStarted' = [peerStarted EXCEPT ![p] = @ + 1]
  /\ last' = NoCall
  /\ UNCHANGED <<rank, cur_stream, streams, evdone, states, pe_queue, inflight,
                 mpi_order, req>>

----------------------------------------------------------------------------
(* Life cycle of the library: streams, pools, progress thread *)
(* cudaStreamDestroy(internal_streams[i]) for every i *)
DestroyInternalStreams ==
  [s \in StreamHandles |->
     destroyed[s] + Cardinality({i \in InternalStreams : internal_streams[i] = s})]

(* Mutation: the streams are not marked as external. *)
replace_internal_streams_NoMark(g) ==
  /\ progress_thread = "running"
  /\ destroyed' = IF ~using_external_streams THEN DestroyInternalStreams
                  ELSE destroyed
  /\ internal_streams' = [i \in InternalStreams |-> stream_getter(g, i)]
  /\ using_external_streams' = using_external_streams
  /\ last' = NoCall
  /\ UNCHANGED <<rank, cur_stream, streams, evdone, states, pe_queue, inflight,
                 mpi_order, peerStarted, req, sync_pool, event_pool,
                 progress_thread, threadVars, mem>>

replace_internal_streams(g) ==
  /\ progress_thread = "running"
  /\ destroyed' = IF ~using_external_streams THEN DestroyInternalStreams
                  ELSE destroyed
  /\ internal_streams' = [i \in InternalStreams |-> stream_getter(g, i)]
  /\ using_external_streams' = TRUE
  /\ last' = NoCall
  /\ UNCHANGED <<rank, cur_stream, streams, evdone, states, pe_queue, inflight,
                 mpi_order, peerStarted, req, sync_pool, event_pool,
                 progress_thread, threadVars, mem>>

(* Mutation: the thread is stopped without waiting for the engine to drain. *)
StopProgressEngine_NoDrain ==
  /\ progress_thread = "running"
  /\ progress_thread' = "joined"
  /\ last' = NoCall
  /\ UNCHANGED <<rank, cur_stream, streams, evdone, states, pe_queue, inflight,
                 mpi_order, peerStarted, req, internal_streams,
                 using_external_streams, destroyed, sync_pool, event_pool,
                 threadVars, mem>>

(* Finalization, first part: wait until the engine has drained, join the *)
(* thread.                                                                *)
StopProgressEngine ==
  /\ progress_thread = "running"
  /\ inflight = <<>> /\ pe_queue = <<>>
  /\ progress_thread' = "joined"
  /\ last' = NoCall
  /\ UNCHANGED <<rank, cur_stream, streams, evdone, states, pe_queue, inflight,
                 mpi_order, peerStarted, req, internal_streams,
                 using_external_streams, destroyed, sync_pool, event_pool,
                 threadVars, mem>>

(* cuda::finalize, called by the finalization once the thread is joined. *)
finalize ==
  /\ progress_thread = "joined"
  /\ sync_pool # "cleared"
  /\ sync_pool' = "cleared"
  /\ event_pool' = "cleared"
  /\ destroyed' = IF ~using_external_streams THEN DestroyInternalStreams
                  ELSE destroyed
  /\ last' = NoCall
  /\ UNCHANGED <<rank, cur_stream, streams, evdone, states, pe_queue, inflight,
                 mpi_order, peerStarted, req, internal_streams,
                 using_external_streams, progress_thread, threadVars, mem>>

----------------------------------------------------------------------------
(* get_internal_stream called from several user threads.  cur_stream is a *)
(* plain static size_t: cur_stream++ is a load followed by a store, and   *)
(* the calls of different threads interleave between the two.             *)
get_internal_stream_load(t) ==
  /\ callers[t].pc = "idle"
  /\ Len(handed) < MaxCalls
  /\ callers' = [callers EXCEPT ![t] = [pc |-> "loaded", tmp |-> cur_stream]]
  /\ handed' = Append(handed, cur_stream)
  /\ last' = NoCall
  /\ UNCHANGED <<rank, cur_stream, streams, evdone, states, pe_queue, inflight,
                 mpi_order, peerStarted, req, cudaVars, mem, submit, sync_event,
                 calls, requests>>

get_internal_stream_store(t) ==
  /\ callers[t].pc = "loaded"
  /\ cur_stream' = callers[t].tmp + 1
  /\ callers' = [callers EXCEPT ![t].pc = "idle"]
  /\ last' = NoCall
  /\ UNCHANGED <<rank, streams, evdone, states, pe_queue, inflight,
                 mpi_order, peerStarted, req, cudaVars, handed, mem, submit,
                 sync_event, calls, requests>>

----------------------------------------------------------------------------
(* A user thread outside any call. *)
NotInCall == [pc |-> "idle", nb |-> FALSE, stream |-> 0, rec |-> 0,
              waited |-> 0, c |-> 0]

Init ==
  /\ rank \in Ranks
  /\ cur_stream = 0
  /\ streams = [sid \in StreamIds |-> <<>>]
  /\ evdone = {}
  /\ states = <<>>
  /\ pe_queue = <<>>
  /\ inflight = <<>>
  /\ mpi_order = <<>>
  /\ peerStarted = [p \in Ranks \ {rank} |-> 0]
  /\ req = [h \in Handles |-> null_req]
  /\ last = NoCall
  /\ internal_streams = [i \in InternalStreams |-> <<"al_internal", i>>]
  /\ using_external_streams = FALSE
  /\ destroyed = [s \in StreamHandles |-> 0]
  /\ sync_pool = "preallocated"
  /\ event_pool = "live"
  /\ progress_thread = "running"
  /\ callers = [t \in Threads |-> [pc |-> "idle", tmp |-> 0]]
  /\ handed = <<>>
  /\ mem = <<>>
  /\ submit = [t \in Threads |-> NotInCall]
  /\ sync_event = 0
  /\ calls = <<>>
  /\ requests = <<>>

Counts == 1 .. MaxCount

Gather(root) == Blocking("Gather", MaxCount, root, "automatic")
NonblockingGather(root, h) == Nonblocking("Gather", MaxCount, root, "automatic", h)

----------------------------------------------------------------------------
(* The buffers of a gather.  Data(i, j) is element j of what rank i sends, *)
(* Old(k) what a receive buffer held at index k before the call; pinned    *)
(* memory starts uninitialised.  Buffers are indexed from 0 like pointers. *)
Buffers == {"A", "B"}
Data(i, j) == <<"data", i, j>>
Old(k) == <<"old", k, 0>>
Uninit == <<"uninit", 0, 0>>

(* An in-place buffer holds the rank's contribution in the rank's slot at *)
(* the root and at its beginning elsewhere.                               *)
NewBuffers(sendbuf, recvbuf, is_root, n, in_place_form) ==
  LET own == IF is_root THEN rank * n ELSE 0
      size == IF is_root THEN NRanks * n ELSE n
  IN [sendbuf |-> sendbuf, recvbuf |-> recvbuf, count |-> n,
      in_place_form |-> in_place_form,
      send |-> [k \in 0 .. n - 1 |-> Data(rank, k)],
      recv |-> [k \in 0 .. NRanks * n - 1 |->
                  IF sendbuf = recvbuf /\ own <= k /\ k < own + n
                  THEN Data(rank, k - own) ELSE Old(k)],
      host_mem |-> [k \in 0 .. size - 1 |-> Uninit],
      writes |-> [k \in 0 .. size - 1 |-> 0]]

(* Mutation: the root stages its contribution at the start of host_mem. *)
StagingCopy_NoOffset(m, is_root) ==
  LET src == IF is_root /\ m.sendbuf = m.recvbuf THEN rank * m.count ELSE 0
      from(j) == IF m.sendbuf = m.recvbuf THEN m.recv[src + j] ELSE m.send[src + j]
  IN [m EXCEPT !.host_mem = [k \in DOMAIN m.host_mem |->
                               IF k < m.count THEN from(k) ELSE m.host_mem[k]],
               !.writes = [k \in DOMAIN m.writes |->
                             IF k < m.count THEN m.writes[k] + 1 ELSE m.writes[k]]]

(* The device-to-host copy of the constructor. *)
StagingCopy(m, is_root) ==
  LET dst == IF is_root THEN rank * m.count ELSE 0
      src == IF is_root /\ m.sendbuf = m.recvbuf THEN rank * m.count ELSE 0
      from(j) == IF m.sendbuf = m.recvbuf THEN m.recv[src + j] ELSE m.send[src + j]
  IN [m EXCEPT !.host_mem = [k \in DOMAIN m.host_mem |->
                               IF dst <= k /\ k < dst + m.count THEN from(k - dst)
                               ELSE m.host_mem[k]],
               !.writes = [k \in DOMAIN m.writes |->
                             IF dst <= k /\ k < dst + m.count THEN m.writes[k] + 1
                             ELSE m.writes[k]]]

(* The host-to-device copy of the constructor (root only). *)
CopyBack(m) ==
  [m EXCEPT !.recv = [k \in DOMAIN m.recv |-> m.host_mem[k]]]

(* Mutation: the root passes host_mem as its send buffer too. *)
MPI_Igather_NoInPlace(m, is_root) ==
  IF is_root
  THEN [m EXCEPT !.host_mem = [k \in DOMAIN m.host_mem |->
                                 IF k \div m.count = rank
                                 THEN m.host_mem[k % m.count]
                                 ELSE Data(k \div m.count, k % m.count)],
                 !.writes = [k \in DOMAIN m.writes |-> m.writes[k] + 1]]
  ELSE m

(* What MPI_Igather has written when it completes: at the root, called    *)
(* with MPI_IN_PLACE, the slots of the other ranks; elsewhere nothing.    *)
MPI_Igather(m, is_root) ==
  IF is_root
  THEN [m EXCEPT !.host_mem = [k \in DOMAIN m.host_mem |->
                                 IF k \div m.count = rank THEN m.host_mem[k]
                                 ELSE Data(k \div m.count, k % m.count)],
                 !.writes = [k \in DOMAIN m.writes |->
                               IF k \div m.count = rank THEN m.writes[k]
                               ELSE m.writes[k] + 1]]
  ELSE m

(* Gather and NonblockingGather with their buffers. *)
TwoBufferGather(sendbuf, recvbuf, count, root, in_place_form) ==
  /\ Blocking("Gather", count, root, "automatic")
  /\ mem' = Append(mem, NewBuffers(sendbuf, recvbuf, rank = root, count,
                                   in_place_form))

(* Gather(buffer, count, root, ...): Gather(buffer, buffer, count, root, ...) *)
InPlaceGather(buffer, count, root) ==
  TwoBufferGather(buffer, buffer, count, root, TRUE)

TwoBufferNonblockingGather(sendbuf, recvbuf, count, root, h, in_place_form) ==
  /\ Nonblocking("Gather", count, root, "automatic", h)
  /\ mem' = Append(mem, NewBuffers(sendbuf, recvbuf, rank = root, count,
                                   in_place_form))

InPlaceNonblockingGather(buffer, count, root, h) ==
  TwoBufferNonblockingGather(buffer, buffer, count, root, h, TRUE)

(* The device executes the head of a stream: what a copy moves. *)
DeviceCopy(sid) ==
  /\ DeviceExec(sid)
  /\ LET it == Head(streams[sid]) IN
       mem' = IF it.t = "d2h" /\ states[it.c].host_mem = "allocated"
              THEN [mem EXCEPT ![it.c] = StagingCopy(@, states[it.c].is_root)]
              ELSE IF it.t = "h2d" /\ states[it.c].host_mem = "allocated"
              THEN [mem EXCEPT ![it.c] = CopyBack(@)]
              ELSE mem

(* The engine's step on c: what the transport has written at completion. *)
PE_Transport(c) ==
  /\ PE_Step(c, "MPI_SUCCESS")
  /\ mem' = IF states[c].phase = "transport_started"
            THEN [mem EXCEPT ![c] = MPI_Igather(@, states[c].is_root)]
            ELSE mem

(* The part of the state the calls of the backend do not touch. *)
Rest == <<cudaVars, threadVars, mem>>

Next ==
  \/ \E root \in Roots : Gather(root) /\ UNCHANGED Rest
  \/ \E root \in Roots, h \in Handles : NonblockingGather(root, h)
       /\ UNCHANGED Rest
  \/ \E h \in Handles : Test(h) /\ UNCHANGED Rest
  \/ \E h \in Handles : Wait(h) /\ UNCHANGED Rest
  \/ UserKernel /\ UNCHANGED Rest
  \/ \E sid \in StreamIds : DeviceExec(sid) /\ UNCHANGED Rest
  \/ \E c \in 1 .. Len(states) : PE_Step(c, "MPI_SUCCESS") /\ UNCHANGED Rest
  \/ \E p \in Ranks : PeerStart(p) /\ UNCHANGED Rest

Spec == Init /\ [][Next]_vars

(* The same system when the transport may return an error at issue. *)
NextFail ==
  \/ Next
  \/ \E c \in 1 .. Len(states) : PE_Step(c, "MPI_ERR") /\ UNCHANGED Rest

SpecFail == Init /\ [][NextFail]_vars

(* The same system from init to finalize: the calls stop when the        *)
(* finalization begins, the device goes on executing what is queued.     *)
NextLife ==
  \/ progress_thread = "running" /\ Next
  \/ /\ progress_thread = "joined"
     /\ \E sid \in StreamIds : DeviceExec(sid)
     /\ UNCHANGED Rest
  \/ \E g \in Getters : replace_internal_streams(g)
  \/ StopProgressEngine
  \/ finalize

SpecLife == Init /\ [][NextLife]_vars

(* Barriers of the host-transfer backend and of the MPI backend. *)
NextSync ==
  \/ Barrier /\ UNCHANGED Rest
  \/ \E h \in Handles : NonblockingBarrier(h) /\ UNCHANGED Rest
  \/ passthrough_nb_barrier /\ UNCHANGED Rest
  \/ \E h \in Handles : Test(h) /\ UNCHANGED Rest
  \/ \E h \in Handles : Wait(h) /\ UNCHANGED Rest
  \/ \E sid \in StreamIds : DeviceExec(sid) /\ UNCHANGED Rest
  \/ \E c \in 1 .. Len(states) :
       states[c].op # "MPIBarrier" /\ PE_Step(c, "MPI_SUCCESS")
       /\ UNCHANGED Rest
  \/ \E c \in 1 .. Len(states) : MPIState_step(c) /\ UNCHANGED Rest
  \/ \E p \in Ranks : PeerStart(p) /\ UNCHANGED Rest

SpecSync == Init /\ [][NextSync]_vars

(* Gathers with the contents of their buffers. *)
NextData ==
  \/ \E sendbuf \in Buffers, root \in Roots, count \in Counts :
       TwoBufferGather(sendbuf, "B", count, root, FALSE)
       /\ UNCHANGED <<cudaVars, threadVars>>
  \/ \E root \in Roots, count \in Counts : InPlaceGather("B", count, root)
       /\ UNCHANGED <<cudaVars, threadVars>>
  \/ \E sendbuf \in Buffers, root \in Roots, count \in Counts, h \in Handles :
       TwoBufferNonblockingGather(sendbuf, "B", count, root, h, FALSE)
       /\ UNCHANGED <<cudaVars, threadVars>>
  \/ \E root \in Roots, count \in Counts, h \in Handles :
       InPlaceNonblockingGather("B", count, root, h)
       /\ UNCHANGED <<cudaVars, threadVars>>
  \/ \E sid \in StreamIds : DeviceCopy(sid)
       /\ UNCHANGED <<cudaVars, threadVars>>
  \/ \E c \in 1 .. Len(states) : PE_Transport(c)
       /\ UNCHANGED <<cudaVars, threadVars>>
  \/ \E p \in Ranks : PeerStart(p) /\ UNCHANGED mem
       /\ UNCHANGED <<cudaVars, threadVars>>

SpecData == Init /\ [][NextData]_vars

(* User threads that take internal streams concurrently. *)
NextThreads ==
  \/ \E t \in Threads : get_internal_stream_load(t)
  \/ \E t \in Threads : get_internal_stream_store(t)

SpecThreads == Init /\ [][NextThreads]_vars

(* The calls of the surface alone, with every operation, count and algorithm. *)
NextFacade ==
  \/ \E op \in Collectives, count \in 0 .. MaxCount, root \in Roots,
        algo \in Algorithms : Blocking(op, count, root, algo) /\ UNCHANGED Rest
  \/ \E op \in Collectives, count \in 0 .. MaxCount, root \in Roots,
        algo \in Algorithms, h \in Handles : Nonblocking(op, count, root, algo, h)
       /\ UNCHANGED Rest
  \/ \E op \in Pt2pt, count \in 0 .. MaxCount : BlockingPt2pt(op, count)
       /\ UNCHANGED Rest
  \/ \E op \in Pt2pt, count \in 0 .. MaxCount, h \in Handles :
        NonblockingPt2pt(op, count, h) /\ UNCHANGED Rest
  \/ \E h \in Handles : Test(h) /\ UNCHANGED Rest
  \/ \E h \in Handles : Wait(h) /\ UNCHANGED Rest

SpecFacade == Init /\ [][NextFacade]_vars

(* Fair scheduling of the device streams, of the progress thread and of the *)
(* other ranks.                                                             *)
Fairness ==
  /\ \A sid \in StreamIds : WF_vars(DeviceExec(sid) /\ UNCHANGED Rest)
  /\ \A c \in 1 .. MaxOps : WF_vars(PE_Step(c, "MPI_SUCCESS") /\ UNCHANGED Rest)
  /\ \A p \in Ranks : WF_vars(PeerStart(p) /\ UNCHANGED Rest)

(* Gathers and barriers, fairly scheduled. *)
NextBarrier ==
  \/ Next
  \/ Barrier /\ UNCHANGED Rest
  \/ \E h \in Handles : NonblockingBarrier(h) /\ UNCHANGED Rest

FairSpec == Init /\ [][NextBarrier]_vars /\ Fairness

----------------------------------------------------------------------------
(* Derived notions used by the properties *)
Issued == 1 .. Len(states)
NonblockingOps == {c \in Issued : states[c].nb}
Completed(c) == ReqEvent(c) \in evdone
ResultCopiedBack(c) ==
  HasResult(states[c].op, states[c].is_root) => states[c].h2d = "result"
InEngine == {inflight[i] : i \in 1 .. Len(inflight)}
            \cup {pe_queue[i] : i \in 1 .. Len(pe_queue)}
UserHead == Head(streams[UserStream])
KernelReady == streams[UserStream] # <<>> /\ UserHead.t = "kernel"

----------------------------------------------------------------------------
(* C1 as written: of two non-blocking collectives issued one after the   *)
(* other on the same user stream, the later one's request event never    *)
(* completes while the earlier one's is pending.                         *)
C1_IssueOrder ==
  \A a \in NonblockingOps, b \in NonblockingOps :
    a < b /\ Completed(b) => Completed(a)

(* C1 amended: the later request's event never completes while the       *)
(* earlier one's is pending when Wait on the earlier request was queued  *)
(* on the user stream before the later collective was issued.            *)
C1_IssueOrderAfterWait ==
  \A a \in NonblockingOps, b \in NonblockingOps :
    a < b /\ a \in states[b].waited_before /\ Completed(b) => Completed(a)

C1_Witness ==
  \E a \in NonblockingOps, b \in NonblockingOps :
    a < b /\ a \in states[b].waited_before /\ Completed(b) /\ Completed(a)

----------------------------------------------------------------------------
(* C2 as written: device work submitted to the user stream after two      *)
(* non-blocking collectives does not execute until the results of both    *)
(* have been copied back to the device.                                   *)
C2_StreamOrdering ==
  KernelReady => \A c \in UserHead.a : ResultCopiedBack(c)

(* C2 amended: device work submitted to the user stream after Wait has    *)
(* been called on the requests of the collectives does not execute until  *)
(* their results have been copied back: a kernel whose turn has come has  *)
(* the result of every request whose wait was queued ahead of it, and a   *)
(* request whose event has completed (whose wait has been passed) has its *)
(* result on the device.                                                  *)
C2_StreamOrderingAfterWait ==
  /\ KernelReady => \A c \in UserHead.w : ResultCopiedBack(c)
  /\ \A c \in NonblockingOps : Completed(c) => ResultCopiedBack(c)

C2_Witness ==
  /\ KernelReady
  /\ \E b \in UserHead.w :
       /\ states[b].is_root
       /\ states[b].h2d = "result"
       /\ \E a \in NonblockingOps :
            a < b /\ states[a].is_root /\ states[a].h2d = "result"

----------------------------------------------------------------------------
(* C3 as written: on every rank the request's event completes only after  *)
(* the rank's transport operation has completed, so Test never returns    *)
(* true while the transport operation is not started or pending.          *)
C3_EventAfterTransport ==
  /\ \A c \in NonblockingOps : Completed(c) => states[c].mpi = "done"
  /\ (last.call = "Test" /\ last.ret = "true" /\ last.old # null_req)
       => states[last.old].mpi = "done"

EventMayComplete(c) ==
  IF HasResult(states[c].op, states[c].is_root)
  THEN states[c].mpi = "done"
  ELSE states[c].d2h = "staged"

(* C3 amended: on a rank that copies a result back (the gather root) the  *)
(* request's event completes only after the rank's transport operation    *)
(* has completed; on a non-root rank of gather it completes only after    *)
(* the staging copy has completed, possibly before the transport.         *)
C3_EventAfterTransportAtRoot ==
  /\ \A c \in NonblockingOps : Completed(c) => EventMayComplete(c)
  /\ (last.call = "Test" /\ last.ret = "true" /\ last.old # null_req)
       => EventMayComplete(last.old)

C3_Witness ==
  /\ last.call = "Test" /\ last.ret = "true" /\ last.old # null_req
  /\ states[last.old].is_root
  /\ states[last.old].mpi = "done"

----------------------------------------------------------------------------
(* The step just taken is a call of Test, of Wait, on handle h. *)
TestStep(h) == last'.call = "Test" /\ last'.h = h
WaitStep(h) == last'.call = "Wait" /\ last'.h = h
WaitRoom == NumItems(streams[UserStream], "wait_event") < MaxPendingWaits
HeldBack ==
  /\ streams[UserStream] # <<>>
  /\ UserHead.t = "wait_event"
  /\ <<UserHead.e, UserHead.c>> \notin evdone

(* C4: Wait never blocks the host: it can be taken in every state, however *)
(* far the collective has progressed; on a non-null request its only       *)
(* effect is to append a wait on the request's event to the request's      *)
(* original (user) stream, it leaves the request unchanged, and the stream *)
(* does not pass that wait before the event has completed.                 *)
C4_WaitNeverBlocks ==
  /\ [](\A h \in Handles : WaitRoom => ENABLED Wait(h))
  /\ [][\A h \in Handles : WaitStep(h) =>
          /\ req' = req
          /\ UNCHANGED <<rank, cur_stream, evdone, states, pe_queue, inflight,
                         mpi_order, peerStarted>>
          /\ streams' = IF req[h] = null_req THEN streams
                        ELSE [streams EXCEPT ![UserStream] =
                                Append(@, StreamWaitEvent("req", req[h]))]]_vars
  /\ [](HeldBack => ~ENABLED DeviceExec(UserStream))

C4_Witness ==
  /\ last.call = "Wait" /\ last.old # null_req
  /\ states[last.old].phase = "waiting_for_device_copy"
  /\ <<"start", last.old>> \notin evdone
  /\ HeldBack

(* C5: Test can always be taken; on a non-null request it returns true     *)
(* exactly when the request's event has completed, resets the handle to    *)
(* the null request when it returns true and leaves it unchanged when it   *)
(* returns false; on the null request Test returns true and Wait enqueues  *)
(* nothing.                                                                *)
C5_TestSemantics ==
  /\ [](\A h \in Handles : ENABLED Test(h))
  /\ [][\A h \in Handles : TestStep(h) =>
          IF req[h] = null_req
          THEN last'.ret = "true" /\ req' = req
          ELSE /\ last'.ret = (IF Completed(req[h]) THEN "true" ELSE "false")
               /\ req' = IF Completed(req[h])
                         THEN [req EXCEPT ![h] = null_req] ELSE req]_vars
  /\ [][\A h \in Handles : WaitStep(h) /\ req[h] = null_req =>
          streams' = streams]_vars

C5_Witness ==
  /\ last.call = "Test" /\ last.ret = "true"
  /\ last.old # null_req
  /\ req[last.h] = null_req

(* C6: a Test that returned true leaves the handle null, and from then on  *)
(* every Test on the handle returns true, every Wait on it enqueues no     *)
(* stream operation, and the handle stays null, however many Test and Wait *)
(* calls follow.                                                           *)
C6_IdempotentTestWait ==
  /\ [](last.call = "Test" /\ last.ret = "true" => req[last.h] = null_req)
  /\ [][\A h \in Handles :
          req[h] = null_req /\ (TestStep(h) \/ WaitStep(h)) =>
            /\ req'[h] = null_req
            /\ TestStep(h) => last'.ret = "true"
            /\ WaitStep(h) => streams' = streams]_vars

C6_Witness ==
  /\ last.call \in {"Test", "Wait"}
  /\ last.old = null_req
  /\ \E c \in NonblockingOps : Completed(c)
  /\ \A h \in Handles : req[h] = null_req

----------------------------------------------------------------------------
(* C7 as written: a call with element count zero, blocking or not, of any  *)
(* operation of the surface, Send, Recv and SendRecv included, creates no  *)
(* state, enqueues nothing on the progress engine or on a device stream,   *)
(* takes no internal stream and leaves the caller's request unchanged.     *)
C7_ZeroCountIdentity ==
  [][(last'.call \in Surface /\ last'.count = 0) =>
       UNCHANGED <<states, pe_queue, inflight, streams, cur_stream, req>>]_vars

(* C7 amended: the same for the collectives (Allreduce, Allgather,         *)
(* Alltoall, Bcast, Gather, Reduce, Reduce_scatter, Scatter); Send, Recv   *)
(* and SendRecv do not look at the count.                                  *)
C7_ZeroCountCollectives ==
  [][(last'.call \in Collectives /\ last'.count = 0) =>
       UNCHANGED <<states, pe_queue, inflight, streams, cur_stream, req>>]_vars

C7_Witness ==
  /\ last.call \in Collectives /\ last.count = 0 /\ last.nb
  /\ last.ret = "return"
  /\ req[last.h] = last.old
  /\ Len(states) > 0

(* C8 as written: a collective called with an algorithm value that is not  *)
(* a recognized enumerator throws, for every count, zero included; the     *)
(* values automatic and host_transfer of Allreduce both run the            *)
(* host-transfer allreduce.                                                *)
RunsAllreduce ==
  (last.call = "Allreduce" /\ last.count > 0
     /\ last.algo \in {"automatic", "host_transfer"})
  => /\ last.ret = "return"
     /\ Len(states) > 0
     /\ states[Len(states)].op = "Allreduce"
     /\ states[Len(states)].nb = last.nb

C8_InvalidAlgorithmThrows ==
  /\ (last.call \in Collectives /\ ~Recognized(last.call, last.algo))
       => last.ret = "throw"
  /\ RunsAllreduce

(* C8 amended: ... throws for every count other than zero (with count zero *)
(* the call returns before it looks at the algorithm); automatic and       *)
(* host_transfer of Allreduce both run the host-transfer allreduce.        *)
C8_InvalidAlgorithmThrowsNonzero ==
  /\ (last.call \in Collectives /\ ~Recognized(last.call, last.algo)
        /\ last.count > 0)
       => last.ret = "throw"
  /\ (last.call \in Collectives /\ last.ret = "throw")
       => ~Recognized(last.call, last.algo)
  /\ RunsAllreduce

C8_Witness ==
  /\ last.call \in Collectives /\ last.algo = "invalid" /\ last.count > 0
  /\ last.nb /\ last.ret = "throw"
  /\ \E c \in Issued : states[c].op = "Allreduce" /\ states[c].nb

----------------------------------------------------------------------------
(* C9: when the transport's call returns failure at issue, the failure is  *)
(* recorded on the request, the next Test or Wait on it surfaces it, and   *)
(* the state is removed from the progress engine.                          *)
C9_TransportFailureReported ==
  \A c \in Issued :
    states[c].mpi = "failed" =>
      /\ c \notin InEngine
      /\ (last.call \in {"Test", "Wait"} /\ last.old = c) => last.ret = "throw"

----------------------------------------------------------------------------
(* C10: under fair scheduling of the progress engine and of the device     *)
(* streams, and with every rank issuing the matching operation, every      *)
(* state handed to the progress engine reaches its final phase and is      *)
(* destroyed (its pinned buffer released, the state out of the engine);    *)
(* no state leaves the engine before its final phase.                      *)
Destroyed(c) ==
  /\ states[c].phase = "complete"
  /\ states[c].host_mem = "released"
  /\ c \notin InEngine

----------------------------------------------------------------------------
C12_StreamOwnership ==
  /\ \A s \in GetterStreams : destroyed[s] = 0
  /\ \A s \in InitStreams :
       destroyed[s] = IF using_external_streams \/ sync_pool = "cleared"
                      THEN 1 ELSE 0

C12_Witness ==
  /\ sync_pool = "cleared"
  /\ using_external_streams
  /\ \A i \in InternalStreams : internal_streams[i] = stream_getter(0, i)
  /\ \A s \in InitStreams : destroyed[s] = 1

(* C13: the k-th call of get_internal_stream overall returns stream       *)
(* k mod 5 (k = 0, 1, ...), also with concurrent callers: no two calls    *)
(* observe the same counter value and no increment is lost.               *)
C13_RoundRobinAtomic ==
  /\ \A k \in 1 .. Len(handed) :
       handed[k] % num_internal_streams = (k - 1) % num_internal_streams
  /\ \A j \in 1 .. Len(handed), k \in 1 .. Len(handed) :
       j # k => handed[j] # handed[k]
  /\ (\A t \in Threads : callers[t].pc = "idle") => cur_stream = Len(handed)

----------------------------------------------------------------------------
GatherDone(c) == states[c].op = "Gather" /\ states[c].phase = "complete"
Aliased(c) == mem[c].sendbuf = mem[c].recvbuf
OwnSlot(c) ==
  {k \in DOMAIN mem[c].host_mem :
     IF states[c].is_root THEN k \div mem[c].count = rank ELSE k < mem[c].count}

(* C14: when a gather of count elements to the root has completed, the    *)
(* root's receive buffer holds rank i's send data in the elements         *)
(* [i*count, (i+1)*count) for every rank i; on a rank that is not the     *)
(* root no host-to-device copy is ever enqueued and the receive buffer is *)
(* left as it was.                                                        *)
C14_GatherResult ==
  \A c \in Issued :
    IF states[c].is_root
    THEN GatherDone(c) =>
           \A i \in Ranks, j \in 0 .. mem[c].count - 1 :
             mem[c].recv[i * mem[c].count + j] = Data(i, j)
    ELSE /\ \A sid \in StreamIds : \A n \in 1 .. Len(streams[sid]) :
              ~(streams[sid][n].t = "h2d" /\ streams[sid][n].c = c)
         /\ states[c].h2d = "none"
         /\ mem[c].recv = NewBuffers(mem[c].sendbuf, mem[c].recvbuf, FALSE,
                                     mem[c].count, FALSE).recv

C14_Witness ==
  \E c \in Issued :
    /\ states[c].is_root /\ GatherDone(c) /\ ~Aliased(c)
    /\ \A i \in Ranks : mem[c].recv[i * mem[c].count] = Data(i, 0)

(* C15: the in-place form Gather(B, count, root) leaves the same buffers  *)
(* as the two-buffer form called with send = recv = B.  At the root the   *)
(* contribution is read from B at offset rank*count; the root's slot of   *)
(* the staging buffer is written once, by the staging copy, never by the  *)
(* transport, and the root's slot of the result is the root's own data.   *)
C15_InPlaceEquivalence ==
  /\ \A c \in Issued, e \in Issued :
       (GatherDone(c) /\ GatherDone(e) /\ Aliased(c) /\ Aliased(e)
          /\ mem[c].in_place_form /\ ~mem[e].in_place_form
          /\ mem[c].count = mem[e].count)
       => mem[c].recv = mem[e].recv /\ mem[c].host_mem = mem[e].host_mem
  /\ \A c \in Issued :
       (states[c].is_root /\ Aliased(c)) =>
         /\ \A k \in OwnSlot(c) :
              /\ mem[c].writes[k] <= 1
              /\ states[c].d2h # "none" =>
                   /\ mem[c].writes[k] = 1
                   /\ mem[c].host_mem[k] = Data(rank, k % mem[c].count)
         /\ GatherDone(c) =>
              \A k \in OwnSlot(c) : mem[c].recv[k] = Data(rank, k % mem[c].count)

C15_Witness ==
  \E c \in Issued, e \in Issued :
    /\ GatherDone(c) /\ GatherDone(e) /\ Aliased(c) /\ Aliased(e)
    /\ mem[c].in_place_form /\ ~mem[e].in_place_form
    /\ states[c].is_root
    /\ \A k \in OwnSlot(c) : mem[c].writes[k] = 1

----------------------------------------------------------------------------
(* The transport operation of c has been started on every rank. *)
StartedOnAllRanks(c) ==
  /\ \E i \in 1 .. Len(mpi_order) : mpi_order[i] = c
  /\ \A p \in Peers : peerStarted[p] >= Position(c)

PassedFlagWait(c) ==
  \A n \in 1 .. Len(streams[states[c].stream]) :
    ~(streams[states[c].stream][n].t = "gpu_wait"
        /\ streams[states[c].stream][n].c = c)

(* C16: no rank sees its barrier complete before every rank has started  *)
(* the transport's barrier: for the host-transfer barrier the flag is not *)
(* signaled, the stream does not pass the wait on the flag and the        *)
(* request's event does not complete before that; for the barrier of the  *)
(* MPI backend the request is not marked complete before that.            *)
C16_BarrierSynchrony ==
  \A c \in Issued :
    /\ states[c].op = "Barrier" =>
         /\ states[c].gpu_wait => StartedOnAllRanks(c)
         /\ PassedFlagWait(c) => StartedOnAllRanks(c)
         /\ states[c].nb /\ Completed(c) => StartedOnAllRanks(c)
    /\ (states[c].op = "MPIBarrier" /\ states[c].phase = "complete")
         => StartedOnAllRanks(c)

C16_Witness ==
  /\ \E c \in Issued :
       /\ states[c].op = "Barrier" /\ states[c].nb
       /\ Completed(c) /\ PassedFlagWait(c)
  /\ \E c \in Issued : states[c].op = "MPIBarrier" /\ states[c].phase = "complete"

----------------------------------------------------------------------------
(* C17: the progress engine never starts the transport operation of a     *)
(* state before the state's start event has completed, that is before the *)
(* staging copy enqueued ahead of it has finished: the transport never    *)
(* reads a staging buffer that is still being filled.                     *)
C17_StartEventGating ==
  \A c \in Issued :
    /\ states[c].mpi # "none" =>
         /\ <<"start", c>> \in evdone
         /\ states[c].d2h = "staged"
    /\ states[c].d2h \in {"none", "staged"}

C17_Witness ==
  \E c \in Issued :
    /\ states[c].nb /\ states[c].mpi = "started"
    /\ states[c].d2h = "staged" /\ <<"start", c>> \in evdone

(* C18: on a rank that copies a result back to the device (the gather     *)
(* root) the sync flag is signaled only after the transport operation has *)
(* completed, and the copy back never runs before the transport has       *)
(* finished writing the staging buffer.                                   *)
C18_SignalAfterTransport ==
  \A c \in Issued :
    HasResult(states[c].op, states[c].is_root) =>
      /\ states[c].gpu_wait => states[c].mpi = "done"
      /\ states[c].h2d # "none" =>
           /\ states[c].h2d = "result"
           /\ states[c].mpi = "done"
           /\ states[c].gpu_wait

C18_Witness ==
  \E c \in Issued :
    /\ states[c].is_root /\ states[c].gpu_wait
    /\ states[c].h2d = "result" /\ states[c].mpi = "done"

(* A copy naming the staging buffer of c is still queued on a stream. *)
CopiesQueued(c) ==
  \E sid \in StreamIds : \E n \in 1 .. Len(streams[sid]) :
    streams[sid][n].c = c /\ streams[sid][n].t \in {"d2h", "h2d"}

(* C19: the pinned staging buffer of a state is released only when the    *)
(* state is destroyed, after its staging copy has completed, after its    *)
(* transport operation has completed and, where there is one, after the   *)
(* copy back has completed; it is released once, and no copy runs on a    *)
(* released buffer.                                                       *)
C19_PinnedLifetime ==
  /\ [](\A c \in Issued :
          /\ states[c].d2h # "freed" /\ states[c].h2d # "freed"
          /\ states[c].host_mem = "released" =>
               /\ states[c].phase = "complete"
               /\ states[c].d2h = "staged"
               /\ states[c].mpi = "done"
               /\ HasResult(states[c].op, states[c].is_root)
                    => states[c].h2d = "result"
               /\ ~CopiesQueued(c))
  /\ [][\A c \in Issued :
          /\ states[c].host_mem = "released" => states'[c].host_mem = "released"
          /\ (states[c].host_mem # "released" /\ states'[c].host_mem = "released")
               => /\ c \in InEngine /\ c \notin InEngine'
                  /\ states[c].phase = "signaled"]_vars

C19_Witness ==
  /\ Len(states) = MaxOps
  /\ \A c \in Issued : states[c].host_mem = "released"
  /\ \E c \in Issued : states[c].is_root /\ states[c].h2d = "result"

(* C20 as written: of two collectives issued on the same user stream, in  *)
(* the blocking or in the non-blocking form, the staging copy of the      *)
(* second does not begin until the sync flag of the first is signaled.    *)
C20_Serialized ==
  \A a \in Issued, b \in Issued :
    (a < b /\ states[b].d2h # "none") => states[a].gpu_wait

(* C20 amended: the same when the first collective was issued in the      *)
(* blocking form, or a Wait on the first one's request was queued on the  *)
(* user stream when the second was issued.                                *)
C20_SerializedOnUserStream ==
  \A a \in Issued, b \in Issued :
    (a < b /\ states[b].d2h # "none"
       /\ (~states[a].nb \/ a \in states[b].waited_before))
    => states[a].gpu_wait

C20_Witness ==
  \E a \in Issued, b \in Issued :
    /\ a < b /\ states[b].d2h # "none" /\ states[b].nb
    /\ states[a].nb /\ a \in states[b].waited_before
    /\ states[a].gpu_wait

----------------------------------------------------------------------------
(* The phase enum, in its order. *)
PhaseOrder == <<"waiting_for_device_copy", "transport_started", "signaled",
                "complete">>
PhaseIndex(p) == CHOOSE i \in 1 .. Len(PhaseOrder) : PhaseOrder[i] = p

(* The query the engine makes of state c in its present phase succeeds. *)
PollSucceeds(c) ==
  CASE states[c].phase = "waiting_for_device_copy" -> <<"start", c>> \in evdone
    [] states[c].phase = "transport_started" -> TransportComplete(c)
    [] states[c].phase = "signaled" ->
         HasResult(states[c].op, states[c].is_root) => <<"end", c>> \in evdone
    [] OTHER -> FALSE

(* C21: every state is in exactly one of the four phases; a state starts  *)
(* in waiting_for_device_copy; its phase only changes to the next phase   *)
(* of the order (no regression, no phase skipped), in a step of the       *)
(* progress engine on a state it holds, when the query of that phase      *)
(* succeeds, a step that is no host call and enqueues nothing; the query  *)
(* does not block the engine: a state whose query succeeds can be stepped *)
(* whatever the other states are waiting for.                             *)
C21_PhaseMonotonic ==
  /\ [](\A c \in Issued :
          \E i \in 1 .. Len(PhaseOrder) : states[c].phase = PhaseOrder[i])
  /\ [][\A c \in 1 .. Len(states') :
          IF c \in Issued
          THEN states'[c].phase # states[c].phase =>
                 /\ PhaseIndex(states'[c].phase) = PhaseIndex(states[c].phase) + 1
                 /\ c \in InEngine
                 /\ PollSucceeds(c)
                 /\ last' = NoCall
                 /\ streams' = streams /\ req' = req
                 /\ \A e \in Issued \ {c} : states'[e].phase = states[e].phase
          ELSE states'[c].phase = "waiting_for_device_copy"]_vars
  /\ [](\A c \in InEngine :
          PollSucceeds(c) => ENABLED PE_Step(c, "MPI_SUCCESS"))

C21_Witness ==
  /\ Len(states) = MaxOps
  /\ \E c \in Issued : states[c].phase = "complete" /\ states[c].is_root
  /\ \E c \in Issued : states[c].phase = "signaled" /\ states[c].nb
  /\ \E c \in Issued : c \in InEngine /\ ~PollSucceeds(c)

----------------------------------------------------------------------------
(* The waits on the sync flag of c that are queued on the streams. *)
FlagWaitsOn(c, sid) ==
  Cardinality({n \in 1 .. Len(streams[sid]) :
                 streams[sid][n].t = "gpu_wait" /\ streams[sid][n].c = c})

RECURSIVE FlagWaitsUpTo(_, _)
FlagWaitsUpTo(c, sid) ==
  IF sid < 0 THEN 0 ELSE FlagWaitsOn(c, sid) + FlagWaitsUpTo(c, sid - 1)

FlagWaits(c) == FlagWaitsUpTo(c, UserStream)

----------------------------------------------------------------------------
(* The step just taken is a call of gather that constructed a state. *)
GatherStep(nb) ==
  /\ last'.call = "Gather" /\ last'.nb = nb /\ last'.ret = "return"
  /\ Len(states') = Len(states) + 1

(* C23: a gather enqueues on the stream of its state, after what is       *)
(* queued there, the staging copy, the record of the start event, the     *)
(* wait on the sync flag and, at the root only, the copy back followed by *)
(* the record of the end event.  In the non-blocking form the stream is   *)
(* the next internal stream, the sequence is preceded there by a wait on  *)
(* the event recorded at that moment on the user's stream and followed by *)
(* the record of the request's event; in the blocking form the stream is  *)
(* the communicator's stream, and nothing else is enqueued anywhere, no   *)
(* internal stream is taken and no request is made.                       *)
C23_StreamProgram ==
  [][LET c == Len(states')
         is_root == states'[c].is_root
         program ==
           <<[t |-> "d2h", e |-> "", c |-> c, a |-> {}, w |-> {}],
             [t |-> "record", e |-> "start", c |-> c, a |-> {}, w |-> {}],
             [t |-> "gpu_wait", e |-> "", c |-> c, a |-> {}, w |-> {}]>>
           \o (IF is_root
               THEN <<[t |-> "h2d", e |-> "", c |-> c, a |-> {}, w |-> {}],
                      [t |-> "record", e |-> "end", c |-> c, a |-> {}, w |-> {}]>>
               ELSE <<>>)
         is == cur_stream % num_internal_streams
     IN /\ GatherStep(FALSE) =>
             /\ states'[c].stream = UserStream
             /\ is_root = (rank \in Roots)
             /\ streams'[UserStream] = streams[UserStream] \o program
             /\ \A sid \in InternalStreams : streams'[sid] = streams[sid]
             /\ cur_stream' = cur_stream
             /\ req' = req
        /\ GatherStep(TRUE) =>
             /\ states'[c].stream = is
             /\ is_root = (rank \in Roots)
             /\ streams'[is] =
                  streams[is]
                  \o <<[t |-> "wait_event", e |-> "sync", c |-> cur_stream,
                        a |-> {}, w |-> {}]>>
                  \o program
                  \o <<[t |-> "record", e |-> "req", c |-> c, a |-> {}, w |-> {}]>>
             /\ streams'[UserStream] =
                  Append(streams[UserStream],
                         [t |-> "record", e |-> "sync", c |-> cur_stream,
                          a |-> {}, w |-> {}])
             /\ \A sid \in InternalStreams \ {is} : streams'[sid] = streams[sid]
             /\ cur_stream' = cur_stream + 1
             /\ req'[last'.h] = c]_vars

C23_Witness ==
  /\ Len(states) = 2
  /\ last.call = "Gather" /\ last.nb /\ last.ret = "return"
  /\ ~states[1].nb /\ states[1].stream = UserStream
  /\ states[2].nb /\ states[2].is_root /\ states[2].stream \in InternalStreams
  /\ Len(streams[states[2].stream]) = 7

----------------------------------------------------------------------------
NonRootGather(c) == states[c].op = "Gather" /\ ~states[c].is_root

(* An operation of the given kinds belonging to c is queued on a stream. *)
Queued(c, kinds) ==
  \E sid \in StreamIds : \E n \in 1 .. Len(streams[sid]) :
    /\ streams[sid][n].c = c
    /\ <<streams[sid][n].t, streams[sid][n].e>> \in kinds

(* C24: on a rank of gather that is not the root the request's event      *)
(* never completes, and the flag is never signaled, before the rank's     *)
(* staging copy has completed; the flag is signaled when the engine       *)
(* starts the transport operation, not when that operation completes, so  *)
(* the stream can pass the wait and the event complete while the          *)
(* transport is pending; no copy back and no end-event record is ever     *)
(* enqueued for the state.                                                *)
C24_NonRootEarly ==
  /\ [](\A c \in Issued : NonRootGather(c) =>
          /\ (states[c].nb /\ Completed(c)) => states[c].d2h = "staged"
          /\ states[c].gpu_wait =>
               states[c].d2h = "staged" /\ <<"start", c>> \in evdone
          /\ ~Queued(c, {<<"h2d", "">>, <<"record", "end">>})
          /\ states[c].h2d = "none" /\ <<"end", c>> \notin evdone)
  /\ [][\A c \in Issued :
          (NonRootGather(c) /\ states[c].phase = "waiting_for_device_copy"
             /\ states'[c].phase # states[c].phase)
          => states'[c].gpu_wait /\ states'[c].mpi = "started"]_vars
  /\ [](\A c \in Issued :
          (NonRootGather(c) /\ states[c].gpu_wait
             /\ streams[states[c].stream] # <<>>
             /\ Head(streams[states[c].stream]).c = c)
          => ENABLED DeviceExec(states[c].stream))

C24_Witness ==
  /\ last.call = "Test" /\ last.ret = "true" /\ last.old # null_req
  /\ NonRootGather(last.old)
  /\ states[last.old].d2h = "staged"
  /\ states[last.old].mpi = "started"
  /\ \A p \in Peers : peerStarted[p] = 0

----------------------------------------------------------------------------
----------------------------------------------------------------------------
(* Calls of gather issued by several user threads, each on its own        *)
(* communicator.  The communicator of thread t has the user stream        *)
(* CommStream(t); the steps of a call are the statements of               *)
(* NonblockingGather, sync_internal_stream_with_comm and do_gather, and   *)
(* the steps of different threads, of the progress thread and of the      *)
(* device interleave.                                                     *)
CommStream(t) == UserStream + t - 1
CommStreams == {CommStream(t) : t \in Threads}

InitSubmit ==
  /\ rank \in Ranks
  /\ cur_stream = 0
  /\ streams = [sid \in StreamIds \cup CommStreams |-> <<>>]
  /\ evdone = {}
  /\ states = <<>>
  /\ pe_queue = <<>>
  /\ inflight = <<>>
  /\ mpi_order = <<>>
  /\ peerStarted = [p \in Ranks \ {rank} |-> 0]
  /\ req = [h \in Handles |-> null_req]
  /\ last = NoCall
  /\ internal_streams = [i \in InternalStreams |-> <<"al_internal", i>>]
  /\ using_external_streams = FALSE
  /\ destroyed = [s \in StreamHandles |-> 0]
  /\ sync_pool = "preallocated"
  /\ event_pool = "live"
  /\ progress_thread = "running"
  /\ callers = [t \in Threads |-> [pc |-> "idle", tmp |-> 0]]
  /\ handed = <<>>
  /\ mem = <<>>
  /\ submit = [t \in Threads |-> NotInCall]
  /\ sync_event = 0
  /\ calls = <<>>
  /\ requests = <<>>

(* The threads that are in a call and have not constructed its state yet. *)
BeforeNew == {t \in Threads : submit[t].pc \in {"got_stream", "recorded", "synced"}}
RoomForCall == Len(states) + Cardinality(BeforeNew) < MaxOps

InCall(nb, h) == [call |-> "Gather", nb |-> nb, count |-> MaxCount,
                  algo |-> "automatic", h |-> h, old |-> 0, ret |-> ""]

(* Gather: do_gather(sendbuf, recvbuf, count, root, comm, comm.get_stream()) *)
Gather_call(t) ==
  /\ submit[t].pc = "idle"
  /\ RoomForCall
  /\ submit' = [submit EXCEPT ![t] = [NotInCall EXCEPT !.pc = "synced",
                                                       !.stream = CommStream(t)]]
  /\ last' = InCall(FALSE, 0)
  /\ UNCHANGED <<rank, cur_stream, streams, evdone, states, pe_queue, inflight,
                 mpi_order, peerStarted, req, cudaVars, callers, handed, requests,
                 sync_event, calls, mem>>

(* NonblockingGather: cudaStream_t internal_stream = get_internal_stream() *)
NonblockingGather_call(t) ==
  /\ submit[t].pc = "idle"
  /\ RoomForCall /\ cur_stream < MaxOps
  /\ cur_stream' = cur_stream + 1
  /\ submit' = [submit EXCEPT ![t] = [NotInCall EXCEPT !.pc = "got_stream",
                                                       !.nb = TRUE,
                                                       !.stream = get_internal_stream]]
  /\ last' = InCall(TRUE, 0)
  /\ UNCHANGED <<rank, streams, evdone, states, pe_queue, inflight,
                 mpi_order, peerStarted, req, cudaVars, callers, handed, requests,
                 sync_event, calls, mem>>

(* cudaEventRecord(sync_event, comm.get_stream()) *)
sync_record(t) ==
  /\ submit[t].pc = "got_stream"
  /\ sync_event' = sync_event + 1
  /\ streams' = Enqueue(streams, CommStream(t), <<Record("sync", sync_event + 1)>>)
  /\ submit' = [submit EXCEPT ![t].pc = "recorded", ![t].rec = sync_event + 1]
  /\ last' = InCall(TRUE, 0)
  /\ UNCHANGED <<rank, cur_stream, evdone, states, pe_queue, inflight,
                 mpi_order, peerStarted, req, cudaVars, callers, handed, requests,
                 calls, mem>>

(* cudaStreamWaitEvent(internal_stream, sync_event, 0): the wait is for *)
(* the recording the event holds at the moment of the call.             *)
sync_wait(t) ==
  /\ submit[t].pc = "recorded"
  /\ streams' = Enqueue(streams, submit[t].stream,
                        <<StreamWaitEvent("sync", sync_event)>>)
  /\ submit' = [submit EXCEPT ![t].pc = "synced", ![t].waited = sync_event]
  /\ last' = InCall(TRUE, 0)
  /\ UNCHANGED <<rank, cur_stream, evdone, states, pe_queue, inflight,
                 mpi_order, peerStarted, req, cudaVars, callers, handed, requests,
                 sync_event, calls, mem>>

(* Mutation: the state is handed to the progress engine by its constructor. *)
do_gather_new_Enqueued(t) ==
  /\ submit[t].pc = "synced"
  /\ LET d == do_op(streams, "Gather", rank \in Roots, submit[t].nb,
                    submit[t].stream)
     IN /\ streams' = d.streams
        /\ states' = d.states
        /\ pe_queue' = d.pe_queue
  /\ calls' = Append(calls, [t |-> t, rec |-> submit[t].rec,
                             waited |-> submit[t].waited])
  /\ submit' = [submit EXCEPT ![t].pc = "constructed", ![t].c = Len(states) + 1]
  /\ last' = InCall(submit[t].nb, 0)
  /\ UNCHANGED <<rank, cur_stream, evdone, inflight, mpi_order,
                 peerStarted, req, cudaVars, callers, handed, requests, sync_event, mem>>

(* do_gather: state = new GatherAlState(..., stream) *)
do_gather_new(t) ==
  /\ submit[t].pc = "synced"
  /\ LET d == do_op(streams, "Gather", rank \in Roots, submit[t].nb,
                    submit[t].stream)
     IN /\ streams' = d.streams
        /\ states' = d.states
  /\ calls' = Append(calls, [t |-> t, rec |-> submit[t].rec,
                             waited |-> submit[t].waited])
  /\ submit' = [submit EXCEPT ![t].pc = "constructed", ![t].c = Len(states) + 1]
  /\ last' = InCall(submit[t].nb, 0)
  /\ UNCHANGED <<rank, cur_stream, evdone, pe_queue, inflight, mpi_order,
                 peerStarted, req, cudaVars, callers, handed, requests, sync_event, mem>>

(* do_gather: get_progress_engine()->enqueue(state) *)
do_gather_enqueue(t) ==
  /\ submit[t].pc = "constructed"
  /\ pe_queue' = Append(pe_queue, submit[t].c)
  /\ submit' = [submit EXCEPT ![t].pc = "enqueued"]
  /\ last' = InCall(submit[t].nb, 0)
  /\ UNCHANGED <<rank, cur_stream, streams, evdone, states, inflight, mpi_order,
                 peerStarted, req, cudaVars, callers, handed, requests, sync_event,
                 calls, mem>>

(* The end of the call: setup_completion_event in the non-blocking form. *)
Gather_return(t, h) ==
  /\ submit[t].pc = "enqueued"
  /\ IF submit[t].nb
     THEN /\ streams' = setup_completion_event(streams, submit[t].stream,
                                               submit[t].c)
          /\ req' = [req EXCEPT ![h] = submit[t].c]
     ELSE UNCHANGED <<streams, req>>
  /\ submit' = [submit EXCEPT ![t] = NotInCall]
  /\ last' = [InCall(submit[t].nb, IF submit[t].nb THEN h ELSE 0)
                EXCEPT !.ret = "return"]
  /\ UNCHANGED <<rank, cur_stream, evdone, states, pe_queue, inflight, mpi_order,
                 peerStarted, cudaVars, callers, handed, requests, sync_event, calls, mem>>

(* Device work a thread submits to the stream of its communicator before *)
(* the calls of gather.                                                   *)
ThreadKernel(t) ==
  /\ \A u \in Threads : submit[u].pc = "idle"
  /\ cur_stream = 0 /\ states = <<>>
  /\ NumItems(streams[CommStream(t)], "kernel") < MaxPendingKernels
  /\ streams' = Enqueue(streams, CommStream(t), <<Kernel({}, {})>>)
  /\ last' = CallRec("Kernel", FALSE, 0, "", 0, "return")
  /\ UNCHANGED <<rank, cur_stream, evdone, states, pe_queue, inflight, mpi_order,
                 peerStarted, req, cudaVars, threadVars, mem>>

NextSubmit ==
  \/ \E t \in Threads : Gather_call(t)
  \/ \E t \in Threads : NonblockingGather_call(t)
  \/ \E t \in Threads : sync_record(t)
  \/ \E t \in Threads : sync_wait(t)
  \/ \E t \in Threads : do_gather_new(t)
  \/ \E t \in Threads : do_gather_enqueue(t)
  \/ \E t \in Threads, h \in Handles : Gather_return(t, h)
  \/ \E t \in Threads : ThreadKernel(t)
  \/ \E sid \in StreamIds \cup CommStreams : DeviceExec(sid) /\ UNCHANGED Rest
  \/ \E c \in 1 .. Len(states) : PE_Step(c, "MPI_SUCCESS") /\ UNCHANGED Rest
  \/ \E p \in Ranks : PeerStart(p) /\ UNCHANGED Rest

SpecSubmit == InitSubmit /\ [][NextSubmit]_vars

----------------------------------------------------------------------------
(* The stream operations a state's constructor enqueues. *)
StateOps == {<<"d2h", "">>, <<"h2d", "">>, <<"gpu_wait", "">>,
             <<"record", "start">>, <<"record", "end">>}

OpsQueuedOn(c, sid) ==
  Cardinality({n \in 1 .. Len(streams[sid]) :
                 /\ streams[sid][n].c = c
                 /\ <<streams[sid][n].t, streams[sid][n].e>> \in StateOps})

OpsQueued(c) == OpsQueuedOn(c, states[c].stream)

(* The members of the state object the engine works on. *)
StateObject(c) ==
  <<states[c].phase, states[c].mpi, states[c].gpu_wait, states[c].host_mem>>

(* C26: every stream operation of a state is enqueued, on the state's     *)
(* stream, by the step that constructs it, taken by the submitting thread *)
(* before the state is in the progress engine, and none is enqueued       *)
(* later; the state enters the engine by that thread's                    *)
(* enqueue, which touches neither the state nor a stream; from then on    *)
(* the state object changes only while it is in the engine, in steps that *)
(* no user thread takes; the transport is started and the in-flight list  *)
(* changed only in such steps, and these steps enqueue nothing on any     *)
(* stream and record no event; a user thread's step never changes the     *)
(* in-flight list or the transport's order.                               *)
C26_SingleOwnership ==
  /\ [](\A c \in Issued : \A sid \in DOMAIN streams :
          sid # states[c].stream => OpsQueuedOn(c, sid) = 0)
  /\ [][\A c \in 1 .. Len(states') :
          IF c \in Issued
          THEN /\ streams' # streams => OpsQueued(c)' <= OpsQueued(c)
               /\ StateObject(c)' # StateObject(c) =>
                    /\ c \in InEngine
                    /\ submit' = submit
                    /\ streams' = streams /\ evdone' = evdone
               /\ (c \notin InEngine /\ c \in InEngine') =>
                    /\ submit[calls[c].t].pc = "constructed"
                    /\ submit[calls[c].t].c = c
                    /\ submit'[calls[c].t].pc = "enqueued"
                    /\ streams' = streams /\ states' = states
          ELSE /\ c \notin InEngine'
               /\ OpsQueued(c)' = IF states'[c].is_root THEN 5 ELSE 3
               /\ submit'[calls'[c].t].c = c
               /\ submit'[calls'[c].t].pc = "constructed"]_vars
  /\ [][(mpi_order' # mpi_order \/ inflight' # inflight) =>
          /\ submit' = submit
          /\ streams' = streams /\ evdone' = evdone
          /\ \A i \in 1 .. Len(mpi_order') :
               i > Len(mpi_order) => mpi_order'[i] \in InEngine]_vars
  /\ [][submit' # submit =>
          /\ inflight' = inflight /\ mpi_order' = mpi_order
          /\ \A c \in Issued : StateObject(c)' = StateObject(c)]_vars

C26_Witness ==
  \E t \in Threads :
    /\ submit[t].pc = "enqueued" /\ submit[t].nb
    /\ states[submit[t].c].is_root
    /\ states[submit[t].c].phase = "signaled"
    /\ \E u \in Threads \ {t} : submit[u].pc = "constructed"

----------------------------------------------------------------------------
(* Request objects.  A request handle is a shared pointer: the object of  *)
(* state c is referenced by the handles that hold c and by the copies the *)
(* caller made of them; it is destroyed when the last reference goes, and *)
(* its destructor returns op_event to the event pool.                     *)
NoRequest == [op_event |-> FALSE, copies |-> 0, released |-> 0]

(* setup_completion_event: get_cuda_event(), make_shared<HostTransferRequest> *)
NewRequest == [op_event |-> TRUE, copies |-> 0, released |-> 0]

Refs(R, q, c) == Cardinality({h \in Handles : q[h] = c}) + R[c].copies

(* Mutation: the destructor does not release the event. *)
HostTransferRequest_dtor_NoRelease(r) == r

(* ~HostTransferRequest() { cuda::release_cuda_event(op_event); } *)
HostTransferRequest_dtor(r) == [r EXCEPT !.released = @ + 1]

(* The request objects once the references are R's copies and the handles *)
(* q: an object that was referenced and is not any more is destroyed.      *)
AfterDrop(R, q) ==
  [c \in 1 .. Len(R) |->
     IF c <= Len(requests) /\ Refs(requests, req, c) > 0 /\ Refs(R, q, c) = 0
     THEN HostTransferRequest_dtor(R[c])
     ELSE R[c]]

OtherRest == <<cudaVars, callers, handed, submit, sync_event, calls, mem>>

GatherReq(root) ==
  /\ Gather(root)
  /\ requests' = IF Len(states') > Len(states) THEN Append(requests, NoRequest)
                 ELSE requests
  /\ UNCHANGED OtherRest

(* NonblockingGather: setup_completion_event assigns the new request to *)
(* the caller's handle.                                                  *)
NonblockingGatherReq(root, h) ==
  /\ NonblockingGather(root, h)
  /\ requests' = IF Len(states') > Len(states)
                 THEN AfterDrop(Append(requests, NewRequest), req')
                 ELSE requests
  /\ UNCHANGED OtherRest

(* Test: req = null_req when the event has completed *)
TestReq(h) ==
  /\ Test(h)
  /\ requests' = AfterDrop(requests, req')
  /\ UNCHANGED OtherRest

(* The caller copies a handle, drops a copy, resets or destroys a handle. *)
CopyHandle(h) ==
  /\ req[h] # null_req
  /\ requests[req[h]].copies < MaxCopies
  /\ requests' = [requests EXCEPT ![req[h]].copies = @ + 1]
  /\ last' = NoCall
  /\ UNCHANGED <<rank, cur_stream, streams, evdone, states, pe_queue, inflight,
                 mpi_order, peerStarted, req, OtherRest>>

DropCopy(c) ==
  /\ requests[c].copies > 0
  /\ requests' = AfterDrop([requests EXCEPT ![c].copies = @ - 1], req)
  /\ last' = NoCall
  /\ UNCHANGED <<rank, cur_stream, streams, evdone, states, pe_queue, inflight,
                 mpi_order, peerStarted, req, OtherRest>>

DropHandle(h) ==
  /\ req[h] # null_req
  /\ req' = [req EXCEPT ![h] = null_req]
  /\ requests' = AfterDrop(requests, req')
  /\ last' = NoCall
  /\ UNCHANGED <<rank, cur_stream, streams, evdone, states, pe_queue, inflight,
                 mpi_order, peerStarted, OtherRest>>

NextEvents ==
  \/ \E root \in Roots : GatherReq(root)
  \/ \E root \in Roots, h \in Handles : NonblockingGatherReq(root, h)
  \/ \E h \in Handles : TestReq(h)
  \/ \E h \in Handles : Wait(h) /\ UNCHANGED Rest
  \/ \E h \in Handles : CopyHandle(h)
  \/ \E c \in 1 .. Len(requests) : DropCopy(c)
  \/ \E h \in Handles : DropHandle(h)
  \/ \E sid \in StreamIds : DeviceExec(sid) /\ UNCHANGED Rest
  \/ \E c \in 1 .. Len(states) : PE_Step(c, "MPI_SUCCESS") /\ UNCHANGED Rest
  \/ \E p \in Ranks : PeerStart(p) /\ UNCHANGED Rest

SpecEvents == Init /\ [][NextEvents]_vars

(* The request object of c is referenced; its event is out of the pool. *)
Live(c) == Refs(requests, req, c) > 0
Outstanding(c) == requests[c].op_event /\ requests[c].released = 0

(* C27: an event is taken from the pool by the non-blocking calls only,   *)
(* one per request; it is returned to the pool when the last reference to *)
(* the request goes (Test resetting the handle, the handle overwritten by *)
(* a later call, reset or destroyed, the last copy dropped), not before   *)
(* and never twice; so the events that are out of the pool for requests   *)
(* are those of the request objects that are alive.                       *)
C27_EventConservation ==
  /\ Len(requests) = Len(states)
  /\ \A c \in 1 .. Len(requests) :
       /\ requests[c].op_event = states[c].nb
       /\ requests[c].released <= 1
       /\ Outstanding(c) = Live(c)
       /\ ~requests[c].op_event => requests[c].released = 0
  /\ Cardinality({c \in 1 .. Len(requests) : Outstanding(c)})
       = Cardinality({c \in 1 .. Len(requests) : Live(c)})

C27_Witness ==
  /\ Len(requests) = 2
  /\ requests[1].released = 1 /\ ~Completed(1)
  /\ requests[2].copies = 1 /\ requests[2].released = 0
  /\ last.call = "Test" /\ last.ret = "true" /\ last.old = 2
  /\ \A h \in Handles : req[h] = null_req

----------------------------------------------------------------------------
(* C28: with two user threads issuing non-blocking gathers on             *)
(* communicators that have different user streams, the shared sync event  *)
(* is not recorded again by another thread between a thread's record and  *)
(* its stream-wait, so that the internal stream of each operation waits   *)
(* for the recording made on its own caller's user stream, and the        *)
(* operation's staging copy does not run before that recording, and with  *)
(* it the work submitted earlier to that user stream, has completed.      *)
C28_PreSyncOwnStream ==
  /\ \A t \in Threads : submit[t].pc = "recorded" => sync_event = submit[t].rec
  /\ \A c \in 1 .. Len(calls) :
       states[c].nb =>
         /\ calls[c].waited = calls[c].rec
         /\ states[c].d2h # "none" => <<"sync", calls[c].rec>> \in evdone

----------------------------------------------------------------------------
(* The transport operation of c has been started on this rank. *)
TransportStarted(c) == \E i \in 1 .. Len(mpi_order) : mpi_order[i] = c

(* C29 as written: every rank starts the transport operations of the      *)
(* collectives of a communicator in the order the collectives were issued *)
(* in, whatever the order their start events complete in.                 *)
C29_TransportInIssueOrder ==
  \A i \in 1 .. Len(mpi_order), j \in 1 .. Len(mpi_order) :
    i < j => mpi_order[i] < mpi_order[j]

(* C29 amended: the transport operation of A is started before that of B  *)
(* when A was issued in the blocking form, or a Wait on A's request was   *)
(* queued on the user stream when B was issued.                           *)
C29_TransportOrderAfterWait ==
  \A a \in Issued, b \in Issued :
    (a < b /\ (~states[a].nb \/ a \in states[b].waited_before)
       /\ TransportStarted(b))
    => TransportStarted(a) /\ Position(a) < Position(b)

C29_Witness ==
  \E a \in Issued, b \in Issued :
    /\ a < b /\ states[a].nb /\ states[b].nb
    /\ a \in states[b].waited_before
    /\ TransportStarted(a) /\ TransportStarted(b)
    /\ Position(a) < Position(b)

====
